---- MODULE Spec2Model ----
(***************************************************************************)
(* Generador de horarios: BloqueHoras (time block), Grupo (group),         *)
(* Asignatura (subject), Horario (schedule) and the enumeration            *)
(* encontrar_horarios.  Objects live in heaps indexed by references, so    *)
(* that aliasing between a catalog and the schedules built from it is      *)
(* visible.  Python exceptions are modelled as records [clase, kind]:      *)
(* clase is the Python class that is raised, kind the error kind.          *)
(***************************************************************************)
EXTENDS Integers, Sequences, FiniteSets, TLC

(***************************************************************************)
(* Bounds of the model.                                                    *)
(***************************************************************************)
NumDias == 2        \* weekdays modelled, indices 0..NumDias-1 of DiaSemana
MaxHora == 2        \* naive times of day are 0..MaxHora
MaxHoraTz == 1      \* offset-aware times of day are 0..MaxHoraTz
MaxBloques == 2     \* blocks one Grupo holds at most (guard of the add actions)
MaxLista == 2       \* length of the bloques_iniciales list of a constructor call
MaxListaLarga == 3  \* the same in the specification of the constructor alone
MaxId == 2          \* group ids passed to the Grupo constructor are 0..MaxId
NumGrupos == 2      \* Grupo objects of the Grupo specification
DiasCatalogo == 1   \* weekdays used by the blocks of a catalog
NumAsignaturas == 3 \* Asignatura objects of a catalog at most
NumGruposCatalogo == 3  \* Grupo objects of a catalog at most

VARIABLES
    bloqueA,        \* SpecBloque: the receiver of a BloqueHoras method call
    bloqueB,        \* SpecBloque: the argument of that call
    res,            \* SpecBloque: what the calls returned
    grupos,         \* heap of Grupo objects: reference -> [estado, id_grupo, bloques]
    asignaturas,    \* heap of Asignatura objects: reference -> [nombre, grupos]
    horario,        \* the Horario object under observation
    gen,            \* the generator encontrar_horarios(catalogo, num_materias)
    ultimo          \* the last call made and how it ended

vars == <<bloqueA, bloqueB, res, grupos, asignaturas, horario, gen, ultimo>>

(***************************************************************************)
(* Errors.                                                                 *)
(***************************************************************************)
NoError == [clase |-> "none", kind |-> "none"]
Error(c, k) == [clase |-> c, kind |-> k]

(***************************************************************************)
(* datetime.time values: minutes since midnight and whether the value      *)
(* carries a UTC offset (time.fromisoformat accepts "08:00+00:00").        *)
(* Ordering comparisons between a naive and an aware time raise TypeError. *)
(***************************************************************************)
Dias == 0 .. (NumDias - 1)

Horas == [min : 0 .. MaxHora, tz : {FALSE}] \cup [min : 0 .. MaxHoraTz, tz : {TRUE}]

TimeComparable(x, y) == x.tz = y.tz

TimeLt(x, y) == x.min < y.min

(***************************************************************************)
(* BloqueHoras.                                                            *)
(***************************************************************************)
\* BloqueHoras.__init__: the error it raises, NoError when it constructs.
BloqueHoras_init_error(dia, hora_inicio, hora_fin) ==
    IF dia \notin Dias THEN Error("TypeError", "InvalidType")
    ELSE IF ~TimeComparable(hora_inicio, hora_fin) THEN Error("TypeError", "TypeError")
    ELSE IF ~TimeLt(hora_inicio, hora_fin) THEN Error("ValueError", "InvalidRange")
    ELSE NoError

BloqueHoras(dia, hora_inicio, hora_fin) ==
    [dia |-> dia, inicio |-> hora_inicio, fin |-> hora_fin]

\* Every BloqueHoras object that can be constructed.
Bloques ==
    { BloqueHoras(d, i, f) : <<d, i, f>> \in
        { t \in Dias \X Horas \X Horas :
            BloqueHoras_init_error(t[1], t[2], t[3]) = NoError } }

Bloque_eq(a, b) == a.dia = b.dia /\ a.inicio = b.inicio /\ a.fin = b.fin

\* BloqueHoras.se_solapa_con raises TypeError: a time comparison it evaluates
\* is between a naive and an aware time.
Bloque_se_solapa_con_raises(a, b) ==
    /\ a.dia = b.dia
    /\ \/ ~TimeComparable(a.inicio, b.fin)
       \/ TimeLt(a.inicio, b.fin) /\ ~TimeComparable(b.inicio, a.fin)

\* Variants of se_solapa_con: closed intervals; the second comparison made
\* against the wrong end; an identical block taken not to overlap.
Bloque_se_solapa_con_cerrado(a, b) ==
    IF a.dia # b.dia THEN FALSE
    ELSE a.inicio.min <= b.fin.min /\ b.inicio.min <= a.fin.min

Bloque_se_solapa_con_asimetrico(a, b) ==
    IF a.dia # b.dia THEN FALSE
    ELSE TimeLt(a.inicio, b.fin) /\ TimeLt(b.inicio, b.fin)

Bloque_se_solapa_con_distintos(a, b) ==
    IF a.dia # b.dia THEN FALSE
    ELSE ~Bloque_eq(a, b) /\ TimeLt(a.inicio, b.fin) /\ TimeLt(b.inicio, a.fin)

\* BloqueHoras.se_solapa_con: the value it returns when it does not raise.
Bloque_se_solapa_con(a, b) ==
    IF a.dia # b.dia THEN FALSE
    ELSE TimeLt(a.inicio, b.fin) /\ TimeLt(b.inicio, a.fin)

\* The outcome of the call a.se_solapa_con(b) as the caller sees it.
Bloque_llamar_se_solapa_con(a, b) ==
    IF Bloque_se_solapa_con_raises(a, b) THEN "TypeError"
    ELSE IF Bloque_se_solapa_con(a, b) THEN "True" ELSE "False"

(***************************************************************************)
(* Grupo.                                                                  *)
(***************************************************************************)
GrupoRefs == 1 .. NumGrupos

GrupoLibre == [estado |-> "libre", id_grupo |-> 0, bloques |-> {}]

\* A value that is not a BloqueHoras, as an argument of agregar_bloque_horario.
NoBloque == [dia |-> -1, inicio |-> [min |-> 0, tz |-> FALSE], fin |-> [min |-> 0, tz |-> FALSE]]

Grupo_validar_id_error(id_grupo) ==
    IF id_grupo <= 0 THEN Error("ValueError", "InvalidId") ELSE NoError

\* str.strip() over the teacher names of the model: blanks removed at both ends.
Strip(s) == CASE s = "  " -> "" [] s = " Gauss " -> "Gauss" [] OTHER -> s

Profesores == {"  ", " Gauss "}

Grupo_validar_profesor_error(profesor) ==
    IF Strip(profesor) = "" THEN Error("ValueError", "InvalidTeacher") ELSE NoError

\* Variant of agregar_bloque_horario without the loop over the stored blocks.
Grupo_agregar_errores_sin_validar(bloques, nuevo_bloque) ==
    IF nuevo_bloque = NoBloque THEN {Error("TypeError", "InvalidType")}
    ELSE {NoError}

\* Grupo.agregar_bloque_horario: the errors the call can end with (NoError: the
\* block is inserted).  The loop visits the stored blocks in the set's own
\* order and stops at the first one whose comparison raises or returns True.
Grupo_agregar_errores(bloques, nuevo_bloque) ==
    IF nuevo_bloque = NoBloque THEN {Error("TypeError", "InvalidType")}
    ELSE LET raising == {e \in bloques : Bloque_se_solapa_con_raises(nuevo_bloque, e)}
             hitting == {e \in bloques : /\ ~Bloque_se_solapa_con_raises(nuevo_bloque, e)
                                         /\ Bloque_se_solapa_con(nuevo_bloque, e)}
         IN  IF raising = {} /\ hitting = {} THEN {NoError}
             ELSE (IF raising # {} THEN {Error("TypeError", "TypeError")} ELSE {})
                  \cup (IF hitting # {} THEN {Error("ValueError", "InternalConflict")} ELSE {})

\* Variant of agregar_bloque_horario that inserts before it validates.
Grupo_agregar_bloques_antes(bloques, nuevo_bloque, e) ==
    IF e.kind = "InvalidType" THEN bloques ELSE bloques \cup {nuevo_bloque}

\* The block set after agregar_bloque_horario ended with error e.
Grupo_agregar_bloques(bloques, nuevo_bloque, e) ==
    IF e = NoError THEN bloques \cup {nuevo_bloque} ELSE bloques

\* Variant of the loop of Grupo.__init__ that commits nothing when a block of
\* the list is rejected.
RECURSIVE Grupo_init_bucle_desde(_, _, _, _)
Grupo_init_bucle_desde(inicial, bloques, lista, k) ==
    IF k > Len(lista) THEN {[bloques |-> bloques, err |-> NoError, k |-> k]}
    ELSE UNION { IF e = NoError
                 THEN Grupo_init_bucle_desde(inicial, bloques \cup {lista[k]}, lista, k + 1)
                 ELSE {[bloques |-> inicial, err |-> e, k |-> k]}
               : e \in Grupo_agregar_errores(bloques, lista[k]) }

Grupo_init_bucle_todo_o_nada(bloques, lista, k) ==
    Grupo_init_bucle_desde(bloques, bloques, lista, k)

\* The loop of Grupo.__init__ over bloques_iniciales from position k on: every
\* way it can end, as [bloques, err, k] with k the position that raised.
RECURSIVE Grupo_init_bucle(_, _, _)
Grupo_init_bucle(bloques, lista, k) ==
    IF k > Len(lista) THEN {[bloques |-> bloques, err |-> NoError, k |-> k]}
    ELSE UNION { IF e = NoError
                 THEN Grupo_init_bucle(bloques \cup {lista[k]}, lista, k + 1)
                 ELSE {[bloques |-> bloques, err |-> e, k |-> k]}
               : e \in Grupo_agregar_errores(bloques, lista[k]) }

\* Variant of Grupo.se_solapa_con that returns after the first block of self
\* (here: its earliest block).
Grupo_se_solapa_con_primero(mis_bloques, sus_bloques) ==
    LET firsts == {<<m, s>> \in mis_bloques \X sus_bloques :
                      \A m2 \in mis_bloques : m2.dia > m.dia \/ (m2.dia = m.dia /\ m2.inicio.min >= m.inicio.min)}
        raising == {p \in firsts : Bloque_se_solapa_con_raises(p[1], p[2])}
        hitting == {p \in firsts : /\ ~Bloque_se_solapa_con_raises(p[1], p[2])
                                   /\ Bloque_se_solapa_con(p[1], p[2])}
    IN  IF raising = {} /\ hitting = {} THEN {"False"}
        ELSE (IF raising # {} THEN {"TypeError"} ELSE {})
             \cup (IF hitting # {} THEN {"True"} ELSE {})

\* Grupo.se_solapa_con: what the call can return ("True", "False") or raise
\* ("TypeError").  The double loop stops at the first pair of blocks whose
\* comparison raises or returns True; the sets' order decides which is first.
Grupo_se_solapa_con(mis_bloques, sus_bloques) ==
    LET pares == mis_bloques \X sus_bloques
        raising == {p \in pares : Bloque_se_solapa_con_raises(p[1], p[2])}
        hitting == {p \in pares : /\ ~Bloque_se_solapa_con_raises(p[1], p[2])
                                  /\ Bloque_se_solapa_con(p[1], p[2])}
    IN  IF raising = {} /\ hitting = {} THEN {"False"}
        ELSE (IF raising # {} THEN {"TypeError"} ELSE {})
             \cup (IF hitting # {} THEN {"True"} ELSE {})

(***************************************************************************)
(* Asignatura.                                                             *)
(***************************************************************************)
\* str.lower() over the subject names of the model.
Lower(nombre) ==
    CASE nombre = "Calc" -> "calc"
      [] nombre = "CALC" -> "calc"
      [] nombre = "Fis" -> "fis"
      [] nombre = "Ed" -> "ed"
      [] OTHER -> nombre

\* Asignatura.__eq__ (and __hash__): equal lower-cased names.
Asignatura_eq(A, s, t) == Lower(A[s].nombre) = Lower(A[t].nombre)

\* The references held by a sequence, in ascending order of clave[ref]; equal
\* keys keep the order of the sequence (sorted() is stable).
RECURSIVE Ordenar(_, _)
Ordenar(refs, clave) ==
    IF refs = <<>> THEN <<>>
    ELSE LET resto == Ordenar(Tail(refs), clave)
             x == Head(refs)
             antes == SelectSeq(resto, LAMBDA y : clave[y] < clave[x])
             despues == SelectSeq(resto, LAMBDA y : ~(clave[y] < clave[x]))
         IN  antes \o <<x>> \o despues

\* The elements of a finite set of integers as a sequence, ascending.
RECURSIVE Ascendente(_)
Ascendente(S) ==
    IF S = {} THEN <<>>
    ELSE LET m == CHOOSE x \in S : \A y \in S : x <= y
         IN  <<m>> \o Ascendente(S \ {m})

\* Variant of Asignatura.grupos without the sort: the values in key order of
\* the heap references.
Asignatura_grupos_sin_ordenar(A, G, s) ==
    Ascendente({A[s].grupos[i] : i \in DOMAIN A[s].grupos})

\* Asignatura.grupos: the Grupo objects of the subject sorted by id_grupo.
Asignatura_grupos(A, G, s) ==
    Ordenar(Ascendente({A[s].grupos[i] : i \in DOMAIN A[s].grupos}),
            [r \in DOMAIN G |-> G[r].id_grupo])

\* Variant of agregar_grupo without the test of line 43: the new Grupo takes
\* the place of the one stored under its id.
Asignatura_agregar_grupo_error_sin_duplicado(A, G, s, r) ==
    IF r = 0 THEN Error("TypeError", "InvalidType") ELSE NoError

\* Asignatura.agregar_grupo(grupo): the error the call ends with; r = 0 stands
\* for an argument that is not a Grupo.
Asignatura_agregar_grupo_error(A, G, s, r) ==
    IF r = 0 THEN Error("TypeError", "InvalidType")
    ELSE IF G[r].id_grupo \in DOMAIN A[s].grupos
    THEN Error("ValueError", "DuplicateGroup")
    ELSE NoError

\* self._grupos after agregar_grupo(grupo) ended with error e (line 46).
Asignatura_agregar_grupo(A, G, s, r, e) ==
    IF e # NoError THEN A[s].grupos
    ELSE [i \in DOMAIN A[s].grupos \cup {G[r].id_grupo} |->
            IF i = G[r].id_grupo THEN r ELSE A[s].grupos[i]]

\* Asignatura.eliminar_grupo(id_grupo): the error the call ends with.
Asignatura_eliminar_grupo_error(A, s, id_grupo) ==
    IF id_grupo \notin DOMAIN A[s].grupos THEN Error("KeyError", "GroupNotFound") ELSE NoError

\* self._grupos after eliminar_grupo(id_grupo) ended with error e (line 56).
Asignatura_eliminar_grupo(A, s, id_grupo, e) ==
    IF e # NoError THEN A[s].grupos
    ELSE [i \in DOMAIN A[s].grupos \ {id_grupo} |-> A[s].grupos[i]]

\* Asignatura.buscar_grupo(id_grupo): the Grupo stored under the id, 0 for None.
Asignatura_buscar_grupo(A, s, id_grupo) ==
    IF id_grupo \in DOMAIN A[s].grupos THEN A[s].grupos[id_grupo] ELSE 0

(***************************************************************************)
(* Horario.                                                                *)
(***************************************************************************)
\* A selection is a dict {Asignatura: Grupo}: a sequence of <<subject, group>>
\* references in insertion order, its keys pairwise unequal.

\* dict.__setitem__: a key equal to a stored one keeps the stored key object
\* and its position and takes the new value.
Dict_set(A, d, s, g) ==
    IF \E i \in 1 .. Len(d) : Asignatura_eq(A, d[i][1], s)
    THEN [i \in 1 .. Len(d) |->
            IF Asignatura_eq(A, d[i][1], s) THEN <<d[i][1], g>> ELSE d[i]]
    ELSE Append(d, <<s, g>>)

\* dict(zip(claves, valores))
RECURSIVE Dict_zip(_, _, _)
Dict_zip(A, claves, valores) ==
    IF claves = <<>> \/ valores = <<>> THEN <<>>
    ELSE Dict_set(A, Dict_zip(A, SubSeq(claves, 1, Len(claves) - 1),
                              SubSeq(valores, 1, Len(claves) - 1)),
                  claves[Len(claves)], valores[Len(claves)])

\* What one comparison grupo1.se_solapa_con(grupo2) of _validar_conflictos does
\* to the validation: ends it with an error, or lets it go on ("sigue").
RECURSIVE Horario_validar_desde(_, _, _, _)
Horario_validar_desde(G, valores, i, j) ==
    IF i > Len(valores) THEN {NoError}
    ELSE IF j > Len(valores) THEN Horario_validar_desde(G, valores, i + 1, i + 2)
    ELSE LET o == Grupo_se_solapa_con(G[valores[i]].bloques, G[valores[j]].bloques)
         IN  (IF "True" \in o THEN {Error("ValueError", "ScheduleConflict")} ELSE {})
             \cup (IF "TypeError" \in o THEN {Error("TypeError", "TypeError")} ELSE {})
             \cup (IF "False" \in o THEN Horario_validar_desde(G, valores, i, j + 1) ELSE {})

\* Variant of _validar_conflictos whose inner loop compares only the next group.
RECURSIVE Horario_validar_vecinos(_, _, _)
Horario_validar_vecinos(G, valores, i) ==
    IF i + 1 > Len(valores) THEN {NoError}
    ELSE LET o == Grupo_se_solapa_con(G[valores[i]].bloques, G[valores[i + 1]].bloques)
         IN  (IF "True" \in o THEN {Error("ValueError", "ScheduleConflict")} ELSE {})
             \cup (IF "TypeError" \in o THEN {Error("TypeError", "TypeError")} ELSE {})
             \cup (IF "False" \in o THEN Horario_validar_vecinos(G, valores, i + 1) ELSE {})

Horario_validar_conflictos_vecinos(G, seleccion) ==
    Horario_validar_vecinos(G, [i \in 1 .. Len(seleccion) |-> seleccion[i][2]], 1)

\* Horario._validar_conflictos: the errors the validation can end with.
Horario_validar_conflictos(G, seleccion) ==
    Horario_validar_desde(G, [i \in 1 .. Len(seleccion) |-> seleccion[i][2]], 1, 2)

\* BloqueHoras.__lt__ between blocks of one Grupo: weekday index, then start.
Bloque_lt(a, b) ==
    IF a.dia # b.dia THEN a.dia < b.dia ELSE TimeLt(a.inicio, b.inicio)

\* a < b as a call of BloqueHoras.__lt__: what it returns ("True", "False")
\* or raises ("TypeError", when the start times of a naive and an aware block
\* of one weekday are compared).
Bloque_llamar_lt(a, b) ==
    IF a.dia # b.dia THEN (IF a.dia < b.dia THEN "True" ELSE "False")
    ELSE IF ~TimeComparable(a.inicio, b.inicio) THEN "TypeError"
    ELSE IF TimeLt(a.inicio, b.inicio) THEN "True" ELSE "False"

\* a == b as a call of BloqueHoras.__eq__ (never raises: == between a naive
\* and an aware time is False).
Bloque_llamar_eq(a, b) == IF Bloque_eq(a, b) THEN "True" ELSE "False"

\* Grupo.horarios: sorted(self._bloques).
RECURSIVE Grupo_horarios(_)
Grupo_horarios(bloques) ==
    IF bloques = {} THEN <<>>
    ELSE LET m == CHOOSE x \in bloques : \A y \in bloques : ~Bloque_lt(y, x)
         IN  <<m>> \o Grupo_horarios(bloques \ {m})

\* Variant of _organizar_para_vista without the sort of lines 58-60.
Ordenar_por_inicio_sin_ordenar(items) == items

\* list.sort(key=lambda item: item[0].inicio): stable insertion by start time.
RECURSIVE Ordenar_por_inicio(_)
Ordenar_por_inicio(items) ==
    IF items = <<>> THEN <<>>
    ELSE LET resto == Ordenar_por_inicio(Tail(items))
             x == Head(items)
             antes == SelectSeq(resto, LAMBDA y : TimeLt(y[1].inicio, x[1].inicio))
             despues == SelectSeq(resto, LAMBDA y : ~TimeLt(y[1].inicio, x[1].inicio))
         IN  antes \o <<x>> \o despues

\* The (bloque, info) items of the selection from position i on, in the order
\* _organizar_para_vista appends them; info is (nombre, id_grupo).
RECURSIVE Horario_items(_, _, _, _)
Horario_items(A, G, seleccion, i) ==
    IF i > Len(seleccion) THEN <<>>
    ELSE LET s == seleccion[i][1]
             g == seleccion[i][2]
             hs == Grupo_horarios(G[g].bloques)
         IN  [n \in 1 .. Len(hs) |-> <<hs[n], A[s].nombre, G[g].id_grupo>>]
             \o Horario_items(A, G, seleccion, i + 1)

\* Horario._organizar_para_vista: weekday -> items sorted by start time.
Horario_organizar_para_vista(A, G, seleccion) ==
    [d \in Dias |->
        Ordenar_por_inicio(SelectSeq(Horario_items(A, G, seleccion, 1),
                                     LAMBDA it : it[1].dia = d))]

\* _organizar_para_vista raises TypeError: the sort of some weekday has to
\* compare a naive start time with an aware one.
Horario_organizar_raises(A, G, seleccion) ==
    \E x \in {Horario_items(A, G, seleccion, 1)[n] :
                 n \in 1 .. Len(Horario_items(A, G, seleccion, 1))} :
    \E y \in {Horario_items(A, G, seleccion, 1)[n] :
                 n \in 1 .. Len(Horario_items(A, G, seleccion, 1))} :
        x[1].dia = y[1].dia /\ ~TimeComparable(x[1].inicio, y[1].inicio)

\* Horario.__init__(seleccion): every way the constructor can end, as the
\* object's fields and the error raised.  self._seleccion is the caller's dict
\* itself and is assigned before the validation runs; es_dict is whether the
\* argument is a dict at all.
Horario_init(A, G, seleccion, es_dict) ==
    IF ~es_dict
    THEN {[estado |-> "none", seleccion |-> <<>>, organizados |-> <<>>,
           err |-> Error("TypeError", "TypeMismatch")]}
    ELSE
    { IF e # NoError
      THEN [estado |-> "parcial", seleccion |-> seleccion, organizados |-> <<>>, err |-> e]
      ELSE IF Horario_organizar_raises(A, G, seleccion)
      THEN [estado |-> "parcial", seleccion |-> seleccion, organizados |-> <<>>,
            err |-> Error("TypeError", "TypeError")]
      ELSE [estado |-> "valido", seleccion |-> seleccion,
            organizados |-> Horario_organizar_para_vista(A, G, seleccion), err |-> NoError]
    : e \in Horario_validar_conflictos(G, seleccion) }

\* Variant of _organizar_para_vista that takes the blocks out of the Grupo
\* (self._bloques.pop()) while it builds the index.
Horario_init_grupos_vaciando(G, seleccion, h) ==
    [r \in DOMAIN G |->
        IF h.estado = "valido" /\ \E i \in 1 .. Len(seleccion) : seleccion[i][2] = r
        THEN [G[r] EXCEPT !.bloques = {}]
        ELSE G[r]]

\* The Grupo objects after Horario.__init__(seleccion) ended as h: the
\* constructor reads them (Grupo.se_solapa_con iterates _bloques, Grupo.horarios
\* returns a sorted copy) and writes to none.
Horario_init_grupos(G, seleccion, h) == G

\* Horario.__str__ without its three title lines: for every weekday, in week
\* order, that has items, a heading line and one line per item.
RECURSIVE Horario_str_desde(_, _)
Horario_str_desde(h, d) ==
    IF d \notin Dias THEN <<>>
    ELSE (IF h.organizados[d] = <<>> THEN <<>>
          ELSE <<[linea |-> "dia", dia |-> d]>>
               \o [n \in 1 .. Len(h.organizados[d]) |->
                     [linea |-> "bloque", inicio |-> h.organizados[d][n][1].inicio,
                      fin |-> h.organizados[d][n][1].fin,
                      info |-> <<h.organizados[d][n][2], h.organizados[d][n][3]>>]])
         \o Horario_str_desde(h, d + 1)

Horario_str(h) == Horario_str_desde(h, 0)

\* Horario.seleccion (lines 66-68): the dict self._seleccion itself, which is
\* the dict the caller passed to the constructor (line 28); no copy is made.
Horario_seleccion(h) == h.seleccion

\* Horario.__len__: len(self._seleccion).
Horario_len(h) == Len(h.seleccion)

\* Horario.__iter__: the (asignatura, grupo) pairs of self._seleccion.items().
Horario_iter(h) == h.seleccion

\* dict.__delitem__: the dict without the item whose key equals s.
Dict_del(A, d, s) == SelectSeq(d, LAMBDA it : ~Asignatura_eq(A, it[1], s))

\* key in dict.
Dict_contiene(A, d, s) == \E i \in 1 .. Len(d) : Asignatura_eq(A, d[i][1], s)

(***************************************************************************)
(* encontrar_horarios.                                                     *)
(***************************************************************************)
\* The concatenation of a sequence of sequences.
RECURSIVE Aplanar(_)
Aplanar(ss) == IF ss = <<>> THEN <<>> ELSE Head(ss) \o Aplanar(Tail(ss))

\* Variant of line 20 with itertools.permutations: the r-tuples of distinct
\* indices of 1 .. n in lexicographic order.
RECURSIVE Permutaciones_sin(_, _, _)
Permutaciones_sin(usados, n, r) ==
    IF r = 0 THEN << <<>> >>
    ELSE Aplanar([x \in 1 .. n |->
                    IF x \in usados THEN <<>>
                    ELSE LET con == Permutaciones_sin(usados \cup {x}, n, r - 1)
                         IN  [i \in 1 .. Len(con) |-> <<x>> \o con[i]]])

Permutaciones(n, r) == Permutaciones_sin({}, n, r)

\* Variant of line 20 with itertools.combinations_with_replacement.
RECURSIVE Combinaciones_con_reemplazo_desde(_, _, _)
Combinaciones_con_reemplazo_desde(lo, n, r) ==
    IF r = 0 THEN << <<>> >>
    ELSE IF lo > n THEN <<>>
    ELSE LET con == Combinaciones_con_reemplazo_desde(lo, n, r - 1)
         IN  [i \in 1 .. Len(con) |-> <<lo>> \o con[i]]
             \o Combinaciones_con_reemplazo_desde(lo + 1, n, r)

Combinaciones_con_reemplazo(n, r) == Combinaciones_con_reemplazo_desde(1, n, r)

\* itertools.combinations(range(lo, n + 1), r) as the sequence it produces:
\* index tuples in lexicographic order.
RECURSIVE Combinaciones_desde(_, _, _)
Combinaciones_desde(lo, n, r) ==
    IF r = 0 THEN << <<>> >>
    ELSE IF lo > n THEN <<>>
    ELSE LET con == Combinaciones_desde(lo + 1, n, r - 1)
         IN  [i \in 1 .. Len(con) |-> <<lo>> \o con[i]]
             \o Combinaciones_desde(lo + 1, n, r)

\* itertools.combinations over a pool of n elements, r >= 0.
Combinaciones(n, r) == Combinaciones_desde(1, n, r)

\* Variant of line 28 with zip(*listas) in the place of product(*listas).
Producto_zip(listas) ==
    IF listas = <<>> THEN <<>>
    ELSE LET corta == CHOOSE i \in 1 .. Len(listas) :
                          \A j \in 1 .. Len(listas) : Len(listas[i]) <= Len(listas[j])
         IN  [x \in 1 .. Len(listas[corta]) |-> [i \in 1 .. Len(listas) |-> listas[i][x]]]

\* itertools.product(*listas) as the sequence it produces: the rightmost list
\* varies fastest.
RECURSIVE Producto(_)
Producto(listas) ==
    IF listas = <<>> THEN << <<>> >>
    ELSE LET resto == Producto(Tail(listas))
             cabeza == Head(listas)
         IN  Aplanar([x \in 1 .. Len(cabeza) |->
                        [i \in 1 .. Len(resto) |-> <<cabeza[x]>> \o resto[i]]])

\* Variant of the handler: except Exception.
Atrapa_todo(e) == TRUE

\* except ValueError (line 42): the exceptions the handler catches.
Atrapa(e) == e.clase = "ValueError"

\* [m.grupos for m in conjunto_materias] for the combination at index ci.
Gen_listas(A, G, catalogo, combo) ==
    [i \in 1 .. Len(combo) |-> Asignatura_grupos(A, G, catalogo[combo[i]])]

\* The first combination at index ci or later whose product is not empty, as
\* <<ci, listas>>; <<0, <<>>>> when the combinations are exhausted.
RECURSIVE Gen_siguiente_combinacion(_, _, _, _, _)
Gen_siguiente_combinacion(A, G, catalogo, combos, ci) ==
    IF ci > Len(combos) THEN <<0, <<>>>>
    ELSE LET ls == Gen_listas(A, G, catalogo, combos[ci])
         IN  IF Producto(ls) = <<>>
             THEN Gen_siguiente_combinacion(A, G, catalogo, combos, ci + 1)
             ELSE <<ci, ls>>

\* The position of the next candidate after position (ci, pi) of the nested
\* loops, as <<ci, pi, listas>>; ci = 0 when both loops are exhausted.
Gen_avanzar(A, G, g) ==
    LET combos == Combinaciones(Len(g.catalogo), g.num_materias)
    IN  IF g.ci >= 1 /\ g.pi < Len(Producto(g.listas))
        THEN <<g.ci, g.pi + 1, g.listas>>
        ELSE LET sig == Gen_siguiente_combinacion(A, G, g.catalogo, combos, g.ci + 1)
             IN  <<sig[1], 1, sig[2]>>

GenNuevo(catalogo, num_materias) ==
    [pc |-> "creado", catalogo |-> catalogo, num_materias |-> num_materias,
     ci |-> 0, pi |-> 0, listas |-> <<>>, cedidos |-> <<>>, descartados |-> <<>>,
     candidatos |-> 0, err |-> NoError]

(***************************************************************************)
(* Values of the variables a specification does not use.                   *)
(***************************************************************************)
NoLlamada ==
    [op |-> "none", g |-> 0, h |-> 0, bloque |-> NoBloque, err |-> NoError,
     ret |-> "None", k |-> 0]

Llamada(op, g, h, bloque, err, ret, k) ==
    [op |-> op, g |-> g, h |-> h, bloque |-> bloque, err |-> err, ret |-> ret, k |-> k]

NoRes == [ab |-> "None", ba |-> "None"]
NoHorario == [estado |-> "none", seleccion |-> <<>>, organizados |-> <<>>, err |-> NoError]
NoGen == GenNuevo(<<>>, 0)
NoAsignaturas == <<>>
GruposLibres == [r \in GrupoRefs |-> GrupoLibre]

(***************************************************************************)
(* SpecBloque: two BloqueHoras objects and the calls between them.         *)
(***************************************************************************)
InitBloque ==
    /\ bloqueA \in Bloques
    /\ bloqueB \in Bloques
    /\ res = NoRes
    /\ grupos = GruposLibres
    /\ asignaturas = NoAsignaturas
    /\ horario = NoHorario
    /\ gen = NoGen
    /\ ultimo = NoLlamada

\* bloqueA.se_solapa_con(bloqueB)
LlamarSeSolapaCon ==
    /\ res' = [res EXCEPT !.ab = Bloque_llamar_se_solapa_con(bloqueA, bloqueB)]
    /\ UNCHANGED <<bloqueA, bloqueB, grupos, asignaturas, horario, gen, ultimo>>

\* bloqueB.se_solapa_con(bloqueA)
LlamarSeSolapaConInverso ==
    /\ res' = [res EXCEPT !.ba = Bloque_llamar_se_solapa_con(bloqueB, bloqueA)]
    /\ UNCHANGED <<bloqueA, bloqueB, grupos, asignaturas, horario, gen, ultimo>>

NextBloque == LlamarSeSolapaCon \/ LlamarSeSolapaConInverso

SpecBloque == InitBloque /\ [][NextBloque]_vars

(***************************************************************************)
(* SpecGrupo: Grupo objects built and changed through their public methods.*)
(***************************************************************************)
Listas == UNION { [1 .. n -> Bloques] : n \in 0 .. MaxLista }

InitGrupo ==
    /\ bloqueA = NoBloque
    /\ bloqueB = NoBloque
    /\ res = NoRes
    /\ grupos = GruposLibres
    /\ asignaturas = NoAsignaturas
    /\ horario = NoHorario
    /\ gen = NoGen
    /\ ultimo = NoLlamada

\* Grupo(id_grupo, profesor, bloques_iniciales), the new object at reference r.
\* A constructor that raises leaves no reference to the object with the caller;
\* the object's fields at that moment are kept under estado "parcial".
NuevoGrupo(r, id_grupo, profesor, lista) ==
    /\ grupos[r].estado = "libre"
    /\ IF Grupo_validar_id_error(id_grupo) # NoError
       THEN /\ ultimo' = Llamada("Grupo", r, 0, NoBloque, Grupo_validar_id_error(id_grupo), "None", 0)
            /\ grupos' = grupos
       ELSE IF Grupo_validar_profesor_error(profesor) # NoError
       THEN /\ ultimo' = Llamada("Grupo", r, 0, NoBloque, Grupo_validar_profesor_error(profesor), "None", 0)
            /\ grupos' = grupos
       ELSE \E fin \in Grupo_init_bucle({}, lista, 1) :
            /\ grupos' = [grupos EXCEPT ![r] =
                 [estado |-> IF fin.err = NoError THEN "listo" ELSE "parcial",
                  id_grupo |-> id_grupo, bloques |-> fin.bloques]]
            /\ ultimo' = Llamada("Grupo", r, 0,
                                 IF fin.err = NoError THEN NoBloque ELSE lista[fin.k],
                                 fin.err, "None", fin.k)
    /\ UNCHANGED <<bloqueA, bloqueB, res, asignaturas, horario, gen>>

\* grupos[r].agregar_bloque_horario(nuevo_bloque)
AgregarBloque(r, nuevo_bloque) ==
    /\ grupos[r].estado = "listo"
    /\ Cardinality(grupos[r].bloques \cup {nuevo_bloque}) <= MaxBloques
    /\ \E e \in Grupo_agregar_errores(grupos[r].bloques, nuevo_bloque) :
        /\ grupos' = [grupos EXCEPT ![r].bloques =
                        Grupo_agregar_bloques(grupos[r].bloques, nuevo_bloque, e)]
        /\ ultimo' = Llamada("agregar_bloque_horario", r, 0, nuevo_bloque, e, "None", 0)
    /\ UNCHANGED <<bloqueA, bloqueB, res, asignaturas, horario, gen>>

\* grupos[r].se_solapa_con(grupos[h])
CompararGrupos(r, h) ==
    /\ grupos[r].estado = "listo"
    /\ grupos[h].estado = "listo"
    /\ \E ret \in Grupo_se_solapa_con(grupos[r].bloques, grupos[h].bloques) :
        ultimo' = Llamada("se_solapa_con", r, h, NoBloque,
                          IF ret = "TypeError" THEN Error("TypeError", "TypeError") ELSE NoError,
                          ret, 0)
    /\ UNCHANGED <<bloqueA, bloqueB, res, grupos, asignaturas, horario, gen>>

NextGrupo ==
    \/ \E r \in GrupoRefs, id_grupo \in 0 .. MaxId, profesor \in Profesores, lista \in Listas :
          NuevoGrupo(r, id_grupo, profesor, lista)
    \/ \E r \in GrupoRefs, b \in Bloques \cup {NoBloque} : AgregarBloque(r, b)
    \/ \E r \in GrupoRefs, h \in GrupoRefs : CompararGrupos(r, h)

SpecGrupo == InitGrupo /\ [][NextGrupo]_vars

(***************************************************************************)
(* Catalogs: Asignatura and Grupo objects as a caller builds them.         *)
(***************************************************************************)
BloquesCatalogo == {b \in Bloques : b.dia < DiasCatalogo}

\* The name of the i-th subject of a catalog of pairwise different names.
NombreBase(i) ==
    CASE i = 1 -> "Calc" [] i = 2 -> "Fis" [] i = 3 -> "Ed" [] OTHER -> "An"

CatalogoRefs == 1 .. NumGruposCatalogo

\* The block sets of the groups of a catalog: no block or one block.
HorariosCatalogo == {{}} \cup {{b} : b \in BloquesCatalogo}

(***************************************************************************)
(* SpecHorario: Horario objects built over Grupo objects that the caller   *)
(* keeps and goes on changing.                                             *)
(***************************************************************************)
InitHorario ==
    /\ bloqueA = NoBloque
    /\ bloqueB = NoBloque
    /\ res = NoRes
    /\ grupos = [r \in CatalogoRefs |-> [estado |-> "listo", id_grupo |-> r, bloques |-> {}]]
    /\ asignaturas = [s \in 1 .. NumAsignaturas |-> [nombre |-> NombreBase(s), grupos |-> <<>>]]
    /\ horario = NoHorario
    /\ gen = NoGen
    /\ ultimo = NoLlamada

\* Selections: every subset of the subjects in reference order, the subject
\* s holding the Grupo object s (whose blocks are any the heap can hold).
Selecciones ==
    LET n == IF NumAsignaturas <= NumGruposCatalogo THEN NumAsignaturas ELSE NumGruposCatalogo
    IN  { [i \in 1 .. Len(c) |-> <<c[i], c[i]>>] :
            c \in UNION { { Combinaciones(n, r)[x] : x \in 1 .. Len(Combinaciones(n, r)) }
                          : r \in 0 .. n } }

\* horario = Horario(seleccion)
ConstruirHorario(seleccion, es_dict) ==
    /\ \E h \in Horario_init(asignaturas, grupos, seleccion, es_dict) :
        /\ horario' = h
        /\ grupos' = Horario_init_grupos(grupos, seleccion, h)
        /\ ultimo' = Llamada("Horario", 0, 0, NoBloque, h.err, "None", 0)
    /\ UNCHANGED <<bloqueA, bloqueB, res, asignaturas, gen>>

NextHorario ==
    \/ \E seleccion \in Selecciones, es_dict \in BOOLEAN : ConstruirHorario(seleccion, es_dict)
    \/ \E r \in CatalogoRefs, b \in BloquesCatalogo \cup {NoBloque} : AgregarBloque(r, b)

SpecHorario == InitHorario /\ [][NextHorario]_vars

(***************************************************************************)
(* SpecOrden: the comparisons a < b, a == b and b < a of two BloqueHoras.  *)
(***************************************************************************)
NoOrden == [lt_ab |-> "None", eq_ab |-> "None", lt_ba |-> "None"]

InitOrden ==
    /\ bloqueA \in Bloques
    /\ bloqueB \in Bloques
    /\ res = NoOrden
    /\ grupos = GruposLibres
    /\ asignaturas = NoAsignaturas
    /\ horario = NoHorario
    /\ gen = NoGen
    /\ ultimo = NoLlamada

\* bloqueA < bloqueB
LlamarLt ==
    /\ res' = [res EXCEPT !.lt_ab = Bloque_llamar_lt(bloqueA, bloqueB)]
    /\ UNCHANGED <<bloqueA, bloqueB, grupos, asignaturas, horario, gen, ultimo>>

\* bloqueB < bloqueA
LlamarLtInverso ==
    /\ res' = [res EXCEPT !.lt_ba = Bloque_llamar_lt(bloqueB, bloqueA)]
    /\ UNCHANGED <<bloqueA, bloqueB, grupos, asignaturas, horario, gen, ultimo>>

\* bloqueA == bloqueB
LlamarEq ==
    /\ res' = [res EXCEPT !.eq_ab = Bloque_llamar_eq(bloqueA, bloqueB)]
    /\ UNCHANGED <<bloqueA, bloqueB, grupos, asignaturas, horario, gen, ultimo>>

NextOrden == LlamarLt \/ LlamarLtInverso \/ LlamarEq

SpecOrden == InitOrden /\ [][NextOrden]_vars

(***************************************************************************)
(* SpecConstructor: g = Grupo(id_grupo, profesor, bloques_iniciales) with  *)
(* longer lists; the call is recorded with its list.                       *)
(***************************************************************************)
ListasLargas == UNION { [1 .. n -> Bloques] : n \in 0 .. MaxListaLarga }

\* g = Grupo(1, " Gauss ", lista): the new object takes reference 1, which
\* the object of the call before loses.
ConstruirGrupo(lista) ==
    /\ \E fin \in Grupo_init_bucle({}, lista, 1) :
        /\ grupos' = [grupos EXCEPT ![1] =
             [estado |-> IF fin.err = NoError THEN "listo" ELSE "parcial",
              id_grupo |-> 1, bloques |-> fin.bloques]]
        /\ ultimo' = [op |-> "Grupo", g |-> 1, h |-> 0,
                      bloque |-> IF fin.err = NoError THEN NoBloque ELSE lista[fin.k],
                      err |-> fin.err, ret |-> "None", k |-> fin.k, lista |-> lista]
    /\ UNCHANGED <<bloqueA, bloqueB, res, asignaturas, horario, gen>>

NextConstructor == \E lista \in ListasLargas : ConstruirGrupo(lista)

SpecConstructor == InitGrupo /\ [][NextConstructor]_vars

(***************************************************************************)
(* SpecVista: Horario objects built over Grupo objects with blocks on      *)
(* several weekdays.                                                       *)
(***************************************************************************)
\* The block sets a Grupo can hold: agregar_bloque_horario accepted every
\* block of the set after the others.
ConjuntosDeBloques ==
    {B \in SUBSET Bloques :
        /\ Cardinality(B) <= MaxBloques
        /\ \A a \in B : \A b \in B \ {a} : Grupo_agregar_errores({a}, b) = {NoError}}

InitVista ==
    /\ bloqueA = NoBloque
    /\ bloqueB = NoBloque
    /\ res = NoRes
    /\ \E b1 \in ConjuntosDeBloques, b2 \in ConjuntosDeBloques, b3 \in HorariosCatalogo :
          grupos = [r \in CatalogoRefs |->
                      [estado |-> "listo", id_grupo |-> r,
                       bloques |-> IF r = 1 THEN b1 ELSE IF r = 2 THEN b2 ELSE b3]]
    /\ asignaturas = [s \in 1 .. NumAsignaturas |-> [nombre |-> NombreBase(s), grupos |-> <<>>]]
    /\ horario = NoHorario
    /\ gen = NoGen
    /\ ultimo = NoLlamada

NextVista ==
    \E seleccion \in Selecciones, es_dict \in BOOLEAN : ConstruirHorario(seleccion, es_dict)

SpecVista == InitVista /\ [][NextVista]_vars

(***************************************************************************)
(* SpecAsignatura: Grupo objects are added to and removed from subjects.   *)
(***************************************************************************)
InitAsignatura ==
    /\ bloqueA = NoBloque
    /\ bloqueB = NoBloque
    /\ res = NoRes
    /\ \E ids \in [CatalogoRefs -> 1 .. MaxId] :
          grupos = [r \in CatalogoRefs |->
                      [estado |-> "listo", id_grupo |-> ids[r], bloques |-> {}]]
    /\ asignaturas = [s \in 1 .. NumAsignaturas |-> [nombre |-> NombreBase(s), grupos |-> <<>>]]
    /\ horario = NoHorario
    /\ gen = NoGen
    /\ ultimo = NoLlamada

\* asignaturas[s].agregar_grupo(grupos[r]); r = 0: the argument is no Grupo.
AgregarGrupo(s, r) ==
    /\ LET e == Asignatura_agregar_grupo_error(asignaturas, grupos, s, r)
       IN  /\ asignaturas' = [asignaturas EXCEPT ![s].grupos =
                                Asignatura_agregar_grupo(asignaturas, grupos, s, r, e)]
           /\ ultimo' = Llamada("agregar_grupo", r, 0, NoBloque, e, "None", s)
    /\ UNCHANGED <<bloqueA, bloqueB, res, grupos, horario, gen>>

\* asignaturas[s].eliminar_grupo(id_grupo)
EliminarGrupo(s, id_grupo) ==
    /\ LET e == Asignatura_eliminar_grupo_error(asignaturas, s, id_grupo)
       IN  /\ asignaturas' = [asignaturas EXCEPT ![s].grupos =
                                Asignatura_eliminar_grupo(asignaturas, s, id_grupo, e)]
           /\ ultimo' = Llamada("eliminar_grupo", 0, id_grupo, NoBloque, e, "None", s)
    /\ UNCHANGED <<bloqueA, bloqueB, res, grupos, horario, gen>>

NextAsignatura ==
    \/ \E s \in 1 .. NumAsignaturas, r \in {0} \cup CatalogoRefs : AgregarGrupo(s, r)
    \/ \E s \in 1 .. NumAsignaturas, id_grupo \in 1 .. MaxId : EliminarGrupo(s, id_grupo)

SpecAsignatura == InitAsignatura /\ [][NextAsignatura]_vars

(***************************************************************************)
(* SpecSeleccion: the caller keeps the dict it passed to Horario (or takes *)
(* it from Horario.seleccion) and writes to it.                            *)
(***************************************************************************)
InitSeleccion ==
    /\ bloqueA = NoBloque
    /\ bloqueB = NoBloque
    /\ res = NoRes
    /\ \E bloques \in [CatalogoRefs -> HorariosCatalogo] :
          grupos = [r \in CatalogoRefs |->
                      [estado |-> "listo", id_grupo |-> r, bloques |-> bloques[r]]]
    /\ asignaturas = [s \in 1 .. NumAsignaturas |-> [nombre |-> NombreBase(s), grupos |-> <<>>]]
    /\ horario = NoHorario
    /\ gen = NoGen
    /\ ultimo = NoLlamada

\* d[asignatura] = grupo on the dict of the Horario under observation.
AsignarEnSeleccion(s, g) ==
    /\ horario.estado = "valido"
    /\ horario' = [horario EXCEPT
                     !.seleccion = Dict_set(asignaturas, Horario_seleccion(horario), s, g)]
    /\ ultimo' = Llamada("dict.__setitem__", 0, 0, NoBloque, NoError, "None", 0)
    /\ UNCHANGED <<bloqueA, bloqueB, res, grupos, asignaturas, gen>>

\* del d[asignatura] on the dict of the Horario under observation.
BorrarDeSeleccion(s) ==
    /\ horario.estado = "valido"
    /\ IF Dict_contiene(asignaturas, Horario_seleccion(horario), s)
       THEN /\ horario' = [horario EXCEPT
                             !.seleccion = Dict_del(asignaturas, Horario_seleccion(horario), s)]
            /\ ultimo' = Llamada("dict.__delitem__", 0, 0, NoBloque, NoError, "None", 0)
       ELSE /\ horario' = horario
            /\ ultimo' = Llamada("dict.__delitem__", 0, 0, NoBloque,
                                 Error("KeyError", "KeyError"), "None", 0)
    /\ UNCHANGED <<bloqueA, bloqueB, res, grupos, asignaturas, gen>>

NextSeleccion ==
    \/ \E seleccion \in Selecciones, es_dict \in BOOLEAN : ConstruirHorario(seleccion, es_dict)
    \/ \E s \in 1 .. NumAsignaturas, g \in CatalogoRefs : AsignarEnSeleccion(s, g)
    \/ \E s \in 1 .. NumAsignaturas : BorrarDeSeleccion(s)

SpecSeleccion == InitSeleccion /\ [][NextSeleccion]_vars

(***************************************************************************)
(* SpecGen: one enumeration encontrar_horarios(catalogo, num_materias)     *)
(* over a catalog that nobody changes while it runs.                       *)
(***************************************************************************)
\* The catalog of n subjects whose u Grupo objects have the owners, ids and
\* block sets given.
CatalogoGrupos(u, ids, bloques) ==
    [r \in CatalogoRefs |->
        IF r <= u THEN [estado |-> "listo", id_grupo |-> ids[r], bloques |-> bloques[r]]
        ELSE GrupoLibre]

CatalogoAsignaturas(n, u, dueno, ids) ==
    [s \in 1 .. n |->
        [nombre |-> NombreBase(s),
         grupos |-> [i \in {ids[r] : r \in {x \in 1 .. u : dueno[x] = s}} |->
                        CHOOSE r \in 1 .. u : dueno[r] = s /\ ids[r] = i]]]

InitGen ==
    /\ bloqueA = NoBloque
    /\ bloqueB = NoBloque
    /\ res = NoRes
    /\ horario = NoHorario
    /\ ultimo = NoLlamada
    /\ \E n \in 0 .. NumAsignaturas, u \in 0 .. NumGruposCatalogo :
       \E dueno \in [1 .. u -> 1 .. n], ids \in [1 .. u -> 1 .. MaxId],
          bloques \in [1 .. u -> HorariosCatalogo], k \in -1 .. (n + 1) :
          /\ \A r \in 1 .. (u - 1) : dueno[r] <= dueno[r + 1]
          /\ \A r \in 1 .. u, q \in 1 .. u : (r # q /\ dueno[r] = dueno[q]) => ids[r] # ids[q]
          /\ grupos = CatalogoGrupos(u, ids, bloques)
          /\ asignaturas = CatalogoAsignaturas(n, u, dueno, ids)
          /\ gen = GenNuevo([i \in 1 .. n |-> i], k)

\* One step of the generator: the body runs from where it stands to the end
\* of the next candidate (lines 20-45): the Horario is yielded, or its
\* ValueError is caught and the loop goes on, or an exception leaves the
\* generator; without a next candidate the generator is exhausted.
GenPaso ==
    /\ gen.pc \in {"creado", "suspendido", "corriendo"}
    /\ UNCHANGED <<bloqueA, bloqueB, res, asignaturas>>
    /\ IF gen.num_materias < 0
       THEN /\ gen' = [gen EXCEPT !.pc = "error",
                                  !.err = Error("ValueError", "InvalidArgument")]
            /\ ultimo' = Llamada("combinations", 0, 0, NoBloque,
                                 Error("ValueError", "InvalidArgument"), "None", 0)
            /\ horario' = horario
            /\ grupos' = grupos
       ELSE LET pos == Gen_avanzar(asignaturas, grupos, gen)
            IN  IF pos[1] = 0
                THEN /\ gen' = [gen EXCEPT !.pc = "agotado"]
                     /\ ultimo' = Llamada("StopIteration", 0, 0, NoBloque, NoError, "None", 0)
                     /\ horario' = horario
                     /\ grupos' = grupos
                ELSE LET combo == Combinaciones(Len(gen.catalogo), gen.num_materias)[pos[1]]
                         tupla == Producto(pos[3])[pos[2]]
                         conjunto == [i \in 1 .. Len(combo) |-> gen.catalogo[combo[i]]]
                         seleccion == Dict_zip(asignaturas, conjunto, tupla)
                         g1 == [gen EXCEPT !.ci = pos[1], !.pi = pos[2], !.listas = pos[3],
                                           !.candidatos = @ + 1]
                     IN  \E h \in Horario_init(asignaturas, grupos, seleccion, TRUE) :
                            /\ horario' = h
                            /\ grupos' = Horario_init_grupos(grupos, seleccion, h)
                            /\ ultimo' = Llamada("Horario", 0, 0, NoBloque, h.err, "None", 0)
                            /\ gen' = IF h.err = NoError
                                      THEN [g1 EXCEPT !.pc = "suspendido",
                                                      !.cedidos = Append(@, h)]
                                      ELSE IF Atrapa(h.err)
                                      THEN [g1 EXCEPT !.pc = "corriendo",
                                                      !.descartados = Append(@, h.err)]
                                      ELSE [g1 EXCEPT !.pc = "error", !.err = h.err]

\* The consumer abandons the generator while it is suspended (generator.close()).
GenCerrar ==
    /\ gen.pc \in {"creado", "suspendido"}
    /\ gen' = [gen EXCEPT !.pc = "cerrado"]
    /\ ultimo' = Llamada("close", 0, 0, NoBloque, NoError, "None", 0)
    /\ UNCHANGED <<bloqueA, bloqueB, res, grupos, asignaturas, horario>>

NextGen == GenPaso \/ GenCerrar

SpecGen == InitGen /\ [][NextGen]_vars

(***************************************************************************)
(* SpecNombres: one enumeration over a catalog whose subjects take any     *)
(* names, equal ones included; the Grupos have no blocks.                  *)
(***************************************************************************)
Nombres == {"Calc", "CALC", "Fis"}

CatalogoConNombres(nombres, n, u, dueno, ids) ==
    [s \in 1 .. n |->
        [nombre |-> nombres[s],
         grupos |-> CatalogoAsignaturas(n, u, dueno, ids)[s].grupos]]

InitNombres ==
    /\ bloqueA = NoBloque
    /\ bloqueB = NoBloque
    /\ res = NoRes
    /\ horario = NoHorario
    /\ ultimo = NoLlamada
    /\ \E n \in 0 .. NumAsignaturas, u \in 0 .. NumGruposCatalogo :
       \E dueno \in [1 .. u -> 1 .. n], ids \in [1 .. u -> 1 .. MaxId],
          nombres \in [1 .. n -> Nombres], k \in -1 .. (n + 1) :
          /\ \A r \in 1 .. (u - 1) : dueno[r] <= dueno[r + 1]
          /\ \A r \in 1 .. u, q \in 1 .. u : (r # q /\ dueno[r] = dueno[q]) => ids[r] # ids[q]
          /\ grupos = CatalogoGrupos(u, ids, [r \in 1 .. u |-> {}])
          /\ asignaturas = CatalogoConNombres(nombres, n, u, dueno, ids)
          /\ gen = GenNuevo([i \in 1 .. n |-> i], k)

SpecNombres == InitNombres /\ [][NextGen]_vars

(***************************************************************************)
(* Properties of BloqueHoras (SpecBloque).                                 *)
(***************************************************************************)
\* Two blocks whose times can be compared with each other.
Comparables(a, b) == a.inicio.tz = b.inicio.tz

\* Same weekday and intersecting open time ranges.
MismoDiaYCruce(a, b) ==
    a.dia = b.dia /\ a.inicio.min < b.fin.min /\ b.inicio.min < a.fin.min

Solapan(a, b) == Comparables(a, b) /\ MismoDiaYCruce(a, b)

\* C7: for blocks a and b whose times are comparable, a.se_solapa_con(b) returns
\* True exactly when they are on the same weekday and a.inicio < b.fin and
\* b.inicio < a.fin; blocks on different weekdays never overlap, and blocks of
\* one weekday where one ends when the other starts do not overlap.
C7_SolapeDeBloques ==
    res.ab # "None" =>
        /\ Comparables(bloqueA, bloqueB) =>
              res.ab = (IF MismoDiaYCruce(bloqueA, bloqueB) THEN "True" ELSE "False")
        /\ bloqueA.dia # bloqueB.dia => res.ab = "False"
        /\ (Comparables(bloqueA, bloqueB) /\ bloqueA.fin = bloqueB.inicio) => res.ab = "False"
        /\ (Comparables(bloqueA, bloqueB) /\ bloqueB.fin = bloqueA.inicio) => res.ab = "False"

\* C7 witness: the call was made on two blocks of one weekday that touch.
C7_Witness ==
    /\ res.ab = "False"
    /\ bloqueA.dia = bloqueB.dia
    /\ bloqueA.fin = bloqueB.inicio

\* C8: the overlap test is symmetric: a.se_solapa_con(b) and b.se_solapa_con(a)
\* end the same way.
C8_SolapeSimetrico ==
    (res.ab # "None" /\ res.ba # "None") => res.ab = res.ba

\* C8 witness: both calls were made on two different overlapping blocks.
C8_Witness ==
    /\ res.ab = "True"
    /\ res.ba = "True"
    /\ bloqueA # bloqueB

(***************************************************************************)
(* Properties of Grupo (SpecGrupo).                                        *)
(***************************************************************************)
\* C4: no two distinct blocks stored in a Grupo are on the same weekday with
\* intersecting time ranges, whatever constructor and add calls were made.
C4_BloquesDisjuntos ==
    \A r \in GrupoRefs :
        \A x \in grupos[r].bloques, y \in grupos[r].bloques :
            x # y => ~MismoDiaYCruce(x, y)

\* C4 witness: a Grupo holds two blocks of one weekday and an add call on it
\* has just been rejected.
C4_Witness ==
    /\ ultimo.op = "agregar_bloque_horario"
    /\ ultimo.err.kind = "InternalConflict"
    /\ \E x \in grupos[ultimo.g].bloques, y \in grupos[ultimo.g].bloques :
          x # y /\ x.dia = y.dia

\* The step is the call grupos[r].agregar_bloque_horario(ultimo'.bloque).
EsAgregar(r) ==
    /\ ultimo'.op = "agregar_bloque_horario"
    /\ ultimo'.g = r
    /\ grupos[r].estado = "listo"

\* C5: agregar_bloque_horario with a block that overlaps a stored block raises
\* ValueError (InternalConflict) and leaves the block set as it was.
C5_ConflictoSinMutacion ==
    [][ \A r \in GrupoRefs :
          (EsAgregar(r) /\ \E e \in grupos[r].bloques : Solapan(ultimo'.bloque, e))
          => /\ ultimo'.err = Error("ValueError", "InternalConflict")
             /\ grupos'[r].bloques = grupos[r].bloques ]_vars

\* C5 witness: an add call of a block that is not stored was rejected.
C5_Witness ==
    /\ ultimo.op = "agregar_bloque_horario"
    /\ ultimo.err.kind = "InternalConflict"
    /\ ultimo.bloque \notin grupos[ultimo.g].bloques

\* C6 as claimed: agregar_bloque_horario with a block identical to a stored one
\* raises nothing and leaves the block set as it was.
C6_DuplicadoAbsorbido ==
    [][ \A r \in GrupoRefs :
          (EsAgregar(r) /\ ultimo'.bloque \in grupos[r].bloques)
          => /\ ultimo'.err = NoError
             /\ grupos'[r].bloques = grupos[r].bloques ]_vars

\* C6 amended: agregar_bloque_horario with a block identical to a stored one
\* raises ValueError (InternalConflict), a block overlapping itself, and leaves
\* the block set as it was.
C6_DuplicadoRechazado ==
    [][ \A r \in GrupoRefs :
          (EsAgregar(r) /\ ultimo'.bloque \in grupos[r].bloques)
          => /\ ultimo'.err = Error("ValueError", "InternalConflict")
             /\ grupos'[r].bloques = grupos[r].bloques ]_vars

\* C6 witness: an add call of a block that is stored was rejected.
C6_Witness ==
    /\ ultimo.op = "agregar_bloque_horario"
    /\ ultimo.err.kind = "InternalConflict"
    /\ ultimo.bloque \in grupos[ultimo.g].bloques

\* C9: g.se_solapa_con(h) returns True only if a block of g overlaps a block of
\* h, returns False only if no block of g shares weekday and time with a block
\* of h, always returns when the blocks of g and h are comparable, and returns
\* False when g or h holds no block.
C9_SolapeDeGrupos ==
    ultimo.op = "se_solapa_con" =>
        LET gb == grupos[ultimo.g].bloques
            hb == grupos[ultimo.h].bloques
        IN  /\ ultimo.ret = "True" => \E m \in gb, s \in hb : Solapan(m, s)
            /\ ultimo.ret = "False" => ~ \E m \in gb, s \in hb : MismoDiaYCruce(m, s)
            /\ (\A m \in gb, s \in hb : Comparables(m, s)) => ultimo.ret # "TypeError"
            /\ (gb = {} \/ hb = {}) => ultimo.ret = "False"

\* C9 witness: two Grupos of two blocks each were compared and overlap.
C9_Witness ==
    /\ ultimo.op = "se_solapa_con"
    /\ ultimo.ret = "True"
    /\ ultimo.g # ultimo.h
    /\ Cardinality(grupos[ultimo.g].bloques) = 2
    /\ Cardinality(grupos[ultimo.h].bloques) = 2

(***************************************************************************)
(* Properties of Horario (SpecHorario).                                    *)
(***************************************************************************)
\* A block of Grupo g overlaps a block of Grupo h.
GruposSolapan(G, g, h) ==
    \E m \in G[g].bloques, s \in G[h].bloques : Solapan(m, s)

\* Every block of g can be compared with every block of h on its weekday.
GruposComparables(G, g, h) ==
    \A m \in G[g].bloques, s \in G[h].bloques : m.dia = s.dia => Comparables(m, s)

\* The pairs of positions of a selection.
Pares(seleccion) ==
    {p \in (1 .. Len(seleccion)) \X (1 .. Len(seleccion)) : p[1] < p[2]}

\* No two Grupos chosen by the selection overlap.
SinSolapes(G, seleccion) ==
    \A p \in Pares(seleccion) :
        ~GruposSolapan(G, seleccion[p[1]][2], seleccion[p[2]][2])

\* C2: the construction of a Horario over a selection of two or more subjects
\* succeeds exactly when no two chosen Grupos overlap, and when some pair
\* overlaps it raises ValueError (ScheduleConflict).
C2_ConstruccionSiiSinSolapes ==
    (ultimo.op = "Horario" /\ Len(horario.seleccion) >= 2) =>
        LET sel == horario.seleccion
            comparables == \A p \in Pares(sel) :
                              GruposComparables(grupos, sel[p[1]][2], sel[p[2]][2])
        IN  /\ comparables => (horario.estado = "valido" <=> SinSolapes(grupos, sel))
            /\ (comparables /\ ~SinSolapes(grupos, sel))
                  => horario.err = Error("ValueError", "ScheduleConflict")
            /\ horario.estado = "valido" => SinSolapes(grupos, sel)
            /\ horario.err.kind = "ScheduleConflict" => ~SinSolapes(grupos, sel)

\* C2 witness: a selection of three subjects was rejected, and the only Grupos
\* of it that overlap are the first and the last.
C2_Witness ==
    /\ ultimo.op = "Horario"
    /\ Len(horario.seleccion) = 3
    /\ horario.err.kind = "ScheduleConflict"
    /\ GruposSolapan(grupos, horario.seleccion[1][2], horario.seleccion[3][2])
    /\ ~GruposSolapan(grupos, horario.seleccion[1][2], horario.seleccion[2][2])
    /\ ~GruposSolapan(grupos, horario.seleccion[2][2], horario.seleccion[3][2])

\* C3 as claimed: whatever is called after a Horario was constructed, the
\* Grupos it holds for any two subjects do not overlap.
C3_HorarioSiempreSinSolapes ==
    horario.estado = "valido" => SinSolapes(grupos, horario.seleccion)

(***************************************************************************)
(* Properties of encontrar_horarios (SpecGen).                             *)
(***************************************************************************)
\* The subjects of the catalog have pairwise distinct names.
NombresDistintos ==
    \A s \in DOMAIN asignaturas, t \in DOMAIN asignaturas :
        s # t => ~Asignatura_eq(asignaturas, s, t)

\* The Grupo objects registered in subject s.
GruposDe(s) == {asignaturas[s].grupos[i] : i \in DOMAIN asignaturas[s].grupos}

\* The selection that takes f[s] for every subject s of S, in catalog order.
SeleccionDe(S, f) ==
    LET orden == Ascendente(S)
    IN  [i \in 1 .. Len(orden) |-> <<orden[i], f[orden[i]]>>]

\* Every way to take exactly k subjects of the catalog and one registered
\* Grupo of each.
Elecciones(k) ==
    UNION {{SeleccionDe(S, f) :
              f \in {x \in [S -> CatalogoRefs] : \A s \in S : x[s] \in GruposDe(s)}} :
           S \in {T \in SUBSET (DOMAIN asignaturas) : Cardinality(T) = k}}

\* The elections in which no two Grupos overlap.
SeleccionesValidas(k) == {sel \in Elecciones(k) : SinSolapes(grupos, sel)}

\* The selections of the Horarios yielded so far.
Cedidas == {gen.cedidos[i].seleccion : i \in 1 .. Len(gen.cedidos)}

\* C1: for a catalog of n subjects with distinct names and 0 < k <= n, the
\* enumeration yields only selections of exactly k subjects with one Grupo
\* each and no two Grupos overlapping, yields none of them twice, and when it
\* is exhausted it has yielded every one of them.
C1_EnumeracionExacta ==
    (NombresDistintos /\ 0 < gen.num_materias /\ gen.num_materias <= Len(gen.catalogo)) =>
        /\ Cedidas \subseteq SeleccionesValidas(gen.num_materias)
        /\ \A i \in 1 .. Len(gen.cedidos), j \in 1 .. Len(gen.cedidos) :
              i # j => gen.cedidos[i].seleccion # gen.cedidos[j].seleccion
        /\ gen.pc = "agotado" => Cedidas = SeleccionesValidas(gen.num_materias)

\* C1 witness: an enumeration of two subjects out of three is exhausted after
\* it yielded a Horario and discarded a candidate, and a subject of the
\* catalog has two Grupos.
C1_Witness ==
    /\ gen.pc = "agotado"
    /\ Len(gen.catalogo) = 3
    /\ gen.num_materias = 2
    /\ Len(gen.cedidos) >= 1
    /\ Len(gen.descartados) >= 1
    /\ \E s \in DOMAIN asignaturas : Cardinality(GruposDe(s)) = 2

\* C10: the enumeration discards a candidate and goes on only when the
\* construction of its Horario raised the ScheduleConflict; any other error
\* of a construction ends the enumeration and reaches the caller.
C10_SoloConflictoDescartado ==
    /\ \A i \in 1 .. Len(gen.descartados) : gen.descartados[i].kind = "ScheduleConflict"
    /\ ultimo.op = "Horario" =>
          /\ ultimo.err.kind = "ScheduleConflict" =>
                (gen.pc = "corriendo" /\ gen.descartados # <<>>
                    /\ gen.descartados[Len(gen.descartados)] = ultimo.err)
          /\ ultimo.err = NoError => gen.pc = "suspendido"
          /\ (ultimo.err # NoError /\ ultimo.err.kind # "ScheduleConflict") =>
                (gen.pc = "error" /\ gen.err = ultimo.err)
    /\ gen.pc = "error" => gen.err # NoError

\* C10 witness: after a candidate was discarded for its ScheduleConflict, the
\* construction of a later candidate raised TypeError and the enumeration
\* ended with that error.
C10_Witness ==
    /\ ultimo.op = "Horario"
    /\ gen.pc = "error"
    /\ gen.err.clase = "TypeError"
    /\ Len(gen.descartados) >= 1
    /\ gen.candidatos >= 2

\* C11: an enumeration that asks for more subjects than the catalog holds
\* constructs no candidate, yields no Horario and raises nothing: its first
\* step finds the generator exhausted.
C11_MasMateriasQueCatalogo ==
    gen.num_materias > Len(gen.catalogo) =>
        /\ gen.cedidos = <<>>
        /\ gen.descartados = <<>>
        /\ gen.candidatos = 0
        /\ gen.err = NoError
        /\ gen.pc \in {"creado", "agotado", "cerrado"}
        /\ ultimo.op \in {"none", "StopIteration", "close"}

\* C11 witness: the enumeration of three subjects over a catalog of two
\* subjects that have a Grupo each is exhausted.
C11_Witness ==
    /\ gen.pc = "agotado"
    /\ Len(gen.catalogo) = 2
    /\ gen.num_materias = 3
    /\ \A s \in DOMAIN asignaturas : GruposDe(s) # {}

\* n over k.
RECURSIVE Binomial(_, _)
Binomial(n, k) ==
    IF k < 0 \/ k > n THEN 0
    ELSE IF k = 0 \/ k = n THEN 1
    ELSE Binomial(n - 1, k - 1) + Binomial(n - 1, k)

\* b to the e.
RECURSIVE Potencia(_, _)
Potencia(b, e) == IF e = 0 THEN 1 ELSE b * Potencia(b, e - 1)

\* The product of the group counts of the subjects of S.
RECURSIVE ProductoDeCuentas(_)
ProductoDeCuentas(S) ==
    IF S = {} THEN 1
    ELSE LET s == CHOOSE x \in S : TRUE
         IN  Cardinality(GruposDe(s)) * ProductoDeCuentas(S \ {s})

\* The sum of the numbers c[T] over the sets T of SS.
RECURSIVE Suma(_, _)
Suma(SS, c) ==
    IF SS = {} THEN 0
    ELSE LET T == CHOOSE x \in SS : TRUE
         IN  c[T] + Suma(SS \ {T}, c)

\* The subsets of k subjects of the catalog.
Subconjuntos(k) == {T \in SUBSET (DOMAIN asignaturas) : Cardinality(T) = k}

\* The sum, over the subsets of k subjects, of the product of their group counts.
SumaDeProductos(k) ==
    Suma(Subconjuntos(k), [T \in Subconjuntos(k) |-> ProductoDeCuentas(T)])

\* C12 as claimed: the number of candidates an exhausted enumeration
\* constructed is C(n,k) times the product of the subjects' group counts,
\* the product taken over the whole catalog or over some k subjects of it.
C12_CandidatosBinomialPorProducto ==
    (gen.pc = "agotado" /\ 0 <= gen.num_materias /\ gen.num_materias <= Len(gen.catalogo)) =>
        \E T \in {DOMAIN asignaturas} \cup Subconjuntos(gen.num_materias) :
            gen.candidatos = Binomial(Len(gen.catalogo), gen.num_materias) * ProductoDeCuentas(T)

\* C12: for 0 <= k <= n the number of candidates an exhausted enumeration
\* constructed is the sum, over the subsets of k subjects, of the product of
\* the group counts of the subset's subjects; it is C(n,k) * g^k when every
\* subject has g groups, and an enumeration in progress has constructed no
\* more than that.
C12_CandidatosSumaDeProductos ==
    (NombresDistintos /\ 0 <= gen.num_materias /\ gen.num_materias <= Len(gen.catalogo)) =>
        /\ gen.candidatos <= SumaDeProductos(gen.num_materias)
        /\ gen.candidatos = Len(gen.cedidos) + Len(gen.descartados)
                            + (IF gen.pc = "error" THEN 1 ELSE 0)
        /\ gen.pc = "agotado" =>
              /\ gen.candidatos = SumaDeProductos(gen.num_materias)
              /\ \A g \in 0 .. NumGruposCatalogo :
                    (\A s \in DOMAIN asignaturas : Cardinality(GruposDe(s)) = g) =>
                        gen.candidatos = Binomial(Len(gen.catalogo), gen.num_materias)
                                         * Potencia(g, gen.num_materias)

\* C12 witness: an enumeration of two subjects out of three with two, one and
\* no Grupo is exhausted after it constructed two candidates and discarded one.
C12_Witness ==
    /\ gen.pc = "agotado"
    /\ Len(gen.catalogo) = 3
    /\ gen.num_materias = 2
    /\ {Cardinality(GruposDe(s)) : s \in DOMAIN asignaturas} = {0, 1, 2}
    /\ gen.candidatos = 2
    /\ Len(gen.descartados) = 1

(***************************************************************************)
(* Properties of a Horario whose dict the caller writes to (SpecSeleccion).*)
(***************************************************************************)
\* C13 as claimed: after a successful construction no operation of the caller
\* changes the Horario's length, the pairs its iteration returns or its
\* cached per-weekday index.
C13_HorarioInmutable ==
    [][(horario.estado = "valido" /\ ultimo'.op # "Horario") =>
          /\ Horario_len(horario') = Horario_len(horario)
          /\ Horario_iter(horario') = Horario_iter(horario)
          /\ horario'.organizados = horario.organizados]_vars

(***************************************************************************)
(* Properties of Asignatura (SpecAsignatura).                              *)
(***************************************************************************)
\* The ids of the Grupo objects that Asignatura.grupos returns for subject s.
IdsDe(s) ==
    LET gs == Asignatura_grupos(asignaturas, grupos, s)
    IN  [i \in 1 .. Len(gs) |-> grupos[gs[i]].id_grupo]

\* C14: agregar_grupo with a Grupo whose id the subject already holds raises
\* ValueError (DuplicateGroup) and leaves the subject's groups as they were;
\* after any adds and removes no two groups of a subject have the same id and
\* every group is stored under its own id.
C14_GrupoDuplicado ==
    /\ [](\A s \in DOMAIN asignaturas :
            /\ \A i \in DOMAIN asignaturas[s].grupos :
                  grupos[Asignatura_buscar_grupo(asignaturas, s, i)].id_grupo = i
            /\ \A i \in 1 .. Len(IdsDe(s)), j \in 1 .. Len(IdsDe(s)) :
                  i # j => IdsDe(s)[i] # IdsDe(s)[j])
    /\ [][\A s \in DOMAIN asignaturas, r \in CatalogoRefs :
            (/\ ultimo'.op = "agregar_grupo" /\ ultimo'.k = s /\ ultimo'.g = r
             /\ \E i \in 1 .. Len(IdsDe(s)) : IdsDe(s)[i] = grupos[r].id_grupo)
            => /\ ultimo'.err = Error("ValueError", "DuplicateGroup")
               /\ asignaturas' = asignaturas]_vars

\* C14 witness: a subject that holds two groups rejected, as a duplicate, a
\* Grupo object other than the one it holds under that id.
C14_Witness ==
    /\ ultimo.op = "agregar_grupo"
    /\ ultimo.err = Error("ValueError", "DuplicateGroup")
    /\ Len(IdsDe(ultimo.k)) = 2
    /\ Asignatura_buscar_grupo(asignaturas, ultimo.k, grupos[ultimo.g].id_grupo) # ultimo.g

(***************************************************************************)
(* Order of the enumeration (SpecGen).                                     *)
(***************************************************************************)
\* The position of subject s in the catalog of the enumeration.
IndiceEnCatalogo(s) == CHOOSE p \in 1 .. Len(gen.catalogo) : gen.catalogo[p] = s

\* The key of a selection: the catalog indices of its subjects followed by
\* the ids of their groups.
Clave(sel) ==
    [i \in 1 .. 2 * Len(sel) |->
        IF i <= Len(sel) THEN IndiceEnCatalogo(sel[i][1])
        ELSE grupos[sel[i - Len(sel)][2]].id_grupo]

\* Lexicographic order of integer sequences of one length.
LexMenor(a, b) ==
    \E i \in 1 .. Len(a) : a[i] < b[i] /\ \A j \in 1 .. (i - 1) : a[j] = b[j]

\* The selections of a set as a sequence in ascending order of their keys.
RECURSIVE EnOrden(_)
EnOrden(S) ==
    IF S = {} THEN <<>>
    ELSE LET m == CHOOSE x \in S : \A y \in S \ {x} : LexMenor(Clave(x), Clave(y))
         IN  <<m>> \o EnOrden(S \ {m})

PosicionesQueSolapan(lista) ==
    {k \in 1 .. Len(lista) : \E j \in 1 .. (k - 1) : Solapan(lista[j], lista[k])}

\* The positions of a list whose block cannot be compared with a block of its
\* weekday before it.
PosicionesIncomparables(lista) ==
    {k \in 1 .. Len(lista) :
        \E j \in 1 .. (k - 1) : lista[j].dia = lista[k].dia /\ ~Comparables(lista[j], lista[k])}

\* C16: when position k is the first of bloques_iniciales whose block overlaps
\* a block before it, the constructor raises ValueError (InternalConflict) at
\* that block and the block set then holds exactly the blocks before
\* position k.
C16_CompromisoParcial ==
    ultimo.op = "Grupo" =>
        LET lista == ultimo.lista
            K == PosicionesQueSolapan(lista)
        IN  (/\ K # {}
             /\ \A i \in PosicionesIncomparables(lista) : \E k \in K : k < i)
            => LET k == CHOOSE x \in K : \A y \in K : x <= y
               IN  /\ ultimo.err = Error("ValueError", "InternalConflict")
                   /\ ultimo.k = k
                   /\ ultimo.bloque = lista[k]
                   /\ grupos[1].bloques = {lista[j] : j \in 1 .. (k - 1)}
                   /\ Cardinality(grupos[1].bloques) = k - 1

\* C16 witness: the third block of a list overlaps the first and not the
\* second, and the constructor failed with the first two blocks stored.
C16_Witness ==
    /\ ultimo.op = "Grupo"
    /\ Len(ultimo.lista) = 3
    /\ ultimo.err = Error("ValueError", "InternalConflict")
    /\ Solapan(ultimo.lista[1], ultimo.lista[3])
    /\ ~Solapan(ultimo.lista[2], ultimo.lista[3])
    /\ grupos[1].bloques = {ultimo.lista[1], ultimo.lista[2]}

(***************************************************************************)
(* Properties of the per-weekday index of a Horario (SpecVista).           *)
(***************************************************************************)
\* The (position, block) pairs of a selection whose block is on weekday d.
BloquesDelDia(sel, d) ==
    {p \in (1 .. Len(sel)) \X Bloques : p[2] \in grupos[sel[p[1]][2]].bloques /\ p[2].dia = d}

\* C17: the index of a Horario just constructed has, for every weekday, one
\* item for every block that a selected Grupo has on that weekday and no other
\* item, the items of a weekday are in non-decreasing order of start time,
\* and the rendering has a heading for a weekday exactly when the weekday has
\* items.
C17_VistaPorDia ==
    (ultimo.op = "Horario" /\ horario.estado = "valido") =>
        \A d \in Dias :
            LET items == horario.organizados[d]
                sel == horario.seleccion
            IN  /\ Len(items) = Cardinality(BloquesDelDia(sel, d))
                /\ \A p \in BloquesDelDia(sel, d) :
                      Cardinality({n \in 1 .. Len(items) :
                          items[n] = <<p[2], asignaturas[sel[p[1]][1]].nombre,
                                       grupos[sel[p[1]][2]].id_grupo>>}) = 1
                /\ \A n \in 1 .. Len(items), m \in 1 .. Len(items) :
                      n < m => /\ Comparables(items[n][1], items[m][1])
                               /\ ~TimeLt(items[m][1].inicio, items[n][1].inicio)
                /\ (items = <<>>) <=>
                      ~\E n \in 1 .. Len(Horario_str(horario)) :
                           /\ Horario_str(horario)[n].linea = "dia"
                           /\ Horario_str(horario)[n].dia = d
                /\ Len(Horario_str(horario))
                      = Cardinality({x \in Dias : horario.organizados[x] # <<>>})
                        + Cardinality(UNION {BloquesDelDia(sel, x) : x \in Dias})

\* C17 witness: a Horario of two subjects whose Grupos have one block each on
\* the same weekday, the block of the second subject's Grupo the earlier one,
\* and no block on the other weekday.
C17_Witness ==
    /\ ultimo.op = "Horario"
    /\ horario.estado = "valido"
    /\ Len(horario.seleccion) = 2
    /\ \E d \in Dias, e \in Dias :
          /\ Len(horario.organizados[d]) = 2
          /\ horario.organizados[d][1][3] = grupos[horario.seleccion[2][2]].id_grupo
          /\ horario.organizados[d][2][3] = grupos[horario.seleccion[1][2]].id_grupo
          /\ horario.organizados[e] = <<>>
          /\ Len(Horario_str(horario)) = 3

(***************************************************************************)
(* Enumerations of no subject (SpecGen).                                   *)
(***************************************************************************)
\* C18: an enumeration with num_materias = 0 yields one Horario, whose
\* selection is empty, and then is exhausted, whatever the catalog holds:
\* it constructs one candidate, discards none and raises nothing.
C18_CeroMaterias ==
    gen.num_materias = 0 =>
        /\ gen.pc \in {"creado", "suspendido", "agotado", "cerrado"}
        /\ gen.pc = "creado" => gen.cedidos = <<>>
        /\ gen.pc \in {"suspendido", "agotado"} => Len(gen.cedidos) = 1
        /\ Len(gen.cedidos) <= 1
        /\ \A i \in 1 .. Len(gen.cedidos) :
              /\ gen.cedidos[i].estado = "valido"
              /\ gen.cedidos[i].seleccion = <<>>
              /\ Horario_len(gen.cedidos[i]) = 0
        /\ gen.descartados = <<>>
        /\ gen.candidatos = Len(gen.cedidos)

\* C18 witness: the enumeration of no subject over the empty catalog is
\* exhausted after it yielded its Horario.
C18_Witness ==
    /\ gen.num_materias = 0
    /\ gen.catalogo = <<>>
    /\ gen.pc = "agotado"
    /\ Len(gen.cedidos) = 1

(***************************************************************************)
(* Frame of the enumeration (SpecGen).                                     *)
(***************************************************************************)
\* C20: no step of the enumeration, whether it yields a Horario, discards a
\* candidate for its ScheduleConflict, ends, or is closed by a consumer that
\* abandons it, changes the groups registered in a subject or the block set of
\* a Grupo.
C20_EnumeracionSinEfectos ==
    [][/\ \A s \in DOMAIN asignaturas :
             /\ asignaturas'[s].grupos = asignaturas[s].grupos
             /\ Asignatura_grupos(asignaturas', grupos', s)
                   = Asignatura_grupos(asignaturas, grupos, s)
       /\ \A r \in DOMAIN grupos : grupos'[r].bloques = grupos[r].bloques
       /\ DOMAIN asignaturas' = DOMAIN asignaturas
       /\ DOMAIN grupos' = DOMAIN grupos]_vars

\* C20 witness: the consumer abandoned an enumeration that had discarded a
\* candidate and yielded a Horario whose Grupos have blocks.
C20_Witness ==
    /\ gen.pc = "cerrado"
    /\ Len(gen.descartados) >= 1
    /\ Len(gen.cedidos) >= 1
    /\ \A i \in 1 .. Len(gen.cedidos[1].seleccion) :
          grupos[gen.cedidos[1].seleccion[i][2]].bloques # {}
    /\ Len(gen.cedidos[1].seleccion) = 2

(***************************************************************************)
(* Enumerations over catalogs with equal names (SpecNombres).              *)
(***************************************************************************)
\* C19 as claimed: whatever the names of the subjects, for 0 < k <= n every
\* Horario yielded has length k and holds k different entries of the catalog.
C19_LongitudK ==
    (0 < gen.num_materias /\ gen.num_materias <= Len(gen.catalogo)) =>
        \A i \in 1 .. Len(gen.cedidos) :
            /\ Horario_len(gen.cedidos[i]) = gen.num_materias
            /\ Cardinality({Horario_iter(gen.cedidos[i])[j][1] :
                              j \in 1 .. Len(Horario_iter(gen.cedidos[i]))}) = gen.num_materias

(***************************************************************************)
(* Order and equality of BloqueHoras (SpecOrden).                          *)
(***************************************************************************)
\* C21 as claimed: for two blocks whose times can be compared, once a < b,
\* a == b and b < a were evaluated, exactly one of them returned True.
C21_OrdenConsistenteConIgualdad ==
    (/\ Comparables(bloqueA, bloqueB)
     /\ res.lt_ab # "None" /\ res.eq_ab # "None" /\ res.lt_ba # "None")
    => Cardinality({c \in {"lt_ab", "eq_ab", "lt_ba"} : res[c] = "True"}) = 1

====
